---------------------------- MODULE Spec2Model ----------------------------
(***************************************************************************)
(* Graph construction and SNA metrics of the NetworkGraph component        *)
(* (src/components/NetworkGraph.tsx): the attribute resolver, the edge     *)
(* classifier, the entity/edge builder and the degree pass of the graphData*)
(* memo, driven by the component's inputs (the data prop) and its toggles. *)
(*                                                                         *)
(* JavaScript strings are sequences of one-character strings, so that      *)
(* concatenation, split, trim, startsWith and the < comparison are         *)
(* computed character by character as the code computes them.              *)
(***************************************************************************)
EXTENDS Integers, Sequences, FiniteSets, TLC

(***************************************************************************)
(* Strings                                                                 *)
(***************************************************************************)

\* The printable ASCII characters in code-unit order (32 .. 126); the double quote,
\* the backslash and the backtick are written by name.
Ascii ==
  <<" ", "!", "QUOTE", "#", "$", "%", "&", "'", "(", ")", "*", "+", ",", "-", ".", "/",
    "0", "1", "2", "3", "4", "5", "6", "7", "8", "9", ":", ";", "<", "=", ">", "?",
    "@", "A", "B", "C", "D", "E", "F", "G", "H", "I", "J", "K", "L", "M", "N", "O",
    "P", "Q", "R", "S", "T", "U", "V", "W", "X", "Y", "Z", "[", "BACKSLASH", "]", "^", "_",
    "BACKTICK", "a", "b", "c", "d", "e", "f", "g", "h", "i", "j", "k", "l", "m", "n", "o",
    "p", "q", "r", "s", "t", "u", "v", "w", "x", "y", "z", "{", "|", "}", "~">>

\* The UTF-16 code unit of a character.
CharCode(c) == 31 + (CHOOSE i \in 1..Len(Ascii) : Ascii[i] = c)

\* s < t on JavaScript strings: by code units, a proper prefix is smaller.
RECURSIVE StrLess(_, _)
StrLess(s, t) ==
  IF t = <<>> THEN FALSE
  ELSE IF s = <<>> THEN TRUE
  ELSE IF Head(s) = Head(t) THEN StrLess(Tail(s), Tail(t))
  ELSE CharCode(Head(s)) < CharCode(Head(t))

\* String.prototype.startsWith
StartsWith(s, p) == Len(s) >= Len(p) /\ SubSeq(s, 1, Len(p)) = p

\* String.prototype.indexOf from position from (1-based), 0 when absent.
RECURSIVE IndexOf(_, _, _)
IndexOf(s, sep, from) ==
  IF from + Len(sep) - 1 > Len(s) THEN 0
  ELSE IF SubSeq(s, from, from + Len(sep) - 1) = sep THEN from
  ELSE IndexOf(s, sep, from + 1)

\* String.prototype.split with a non-empty separator: every part, in order.
RECURSIVE Split(_, _)
Split(s, sep) ==
  LET k == IndexOf(s, sep, 1) IN
  IF k = 0 THEN <<s>>
  ELSE <<SubSeq(s, 1, k - 1)>> \o Split(SubSeq(s, k + Len(sep), Len(s)), sep)

\* The white space String.prototype.trim removes (of the characters above).
WhiteSpace == {" "}

RECURSIVE TrimStart(_)
TrimStart(s) ==
  IF s # <<>> /\ Head(s) \in WhiteSpace THEN TrimStart(Tail(s)) ELSE s

RECURSIVE TrimEnd(_)
TrimEnd(s) ==
  IF s # <<>> /\ s[Len(s)] \in WhiteSpace THEN TrimEnd(SubSeq(s, 1, Len(s) - 1)) ELSE s

\* String.prototype.trim
Trim(s) == TrimEnd(TrimStart(s))

(***************************************************************************)
(* Dimension keys, edge types, sentinels                                   *)
(***************************************************************************)

authorName == <<"a", "u", "t", "h", "o", "r", "N", "a", "m", "e">>
translatorName == <<"t", "r", "a", "n", "s", "l", "a", "t", "o", "r", "N", "a", "m", "e">>
publisher == <<"p", "u", "b", "l", "i", "s", "h", "e", "r">>
city == <<"c", "i", "t", "y">>
sourceLanguage == <<"s", "o", "u", "r", "c", "e", "L", "a", "n", "g", "u", "a", "g", "e">>
targetLanguage == <<"t", "a", "r", "g", "e", "t", "L", "a", "n", "g", "u", "a", "g", "e">>
CustomPrefix == <<"c", "u", "s", "t", "o", "m", ":">>
Unknown == <<"U", "n", "k", "n", "o", "w", "n">>
NotApplicable == <<"N", "/", "A">>
Colon == <<":">>
Arrow == <<"-", ">">>
Bar == <<"|">>

\* The keys of EDGE_COLORS, in declaration order.
EdgeTypes ==
  <<"TRANSLATION", "PUBLICATION", "COLLABORATION", "GEOGRAPHIC", "LINGUISTIC", "CUSTOM">>

\* The customColumns prop: the project's user-named columns.
customColumns == << <<"x">>, <<"x", ":", "y">> >>

\* The ids of availableAttributes: the six built-ins, then custom:<column>.
availableAttributes ==
  <<authorName, translatorName, publisher, city, sourceLanguage, targetLanguage>>
    \o [i \in 1..Len(customColumns) |-> CustomPrefix \o customColumns[i]]

Range(seq) == {seq[i] : i \in 1..Len(seq)}

\* Array.prototype.includes
Includes(seq, x) == \E i \in 1..Len(seq) : seq[i] = x

\* Array.prototype.filter(y => y !== x)
Without(seq, x) == SelectSeq(seq, LAMBDA y : y # x)

(***************************************************************************)
(* Attribute resolver and edge classifier                                  *)
(***************************************************************************)

\* entry.customMetadata?.[key] || '' : a missing map and a missing field read as ''.
CustomField(entry, key) ==
  IF "customMetadata" \in entry.missing THEN <<>>
  ELSE IF key \in DOMAIN entry.customMetadata THEN entry.customMetadata[key]
  ELSE <<>>

\* Whether getAttrValue raises a TypeError: entry.author.name and
\* entry.translator.name read a property of undefined when the record has no such
\* object.
Throws(entry, attr) ==
  \/ attr = authorName /\ "author" \in entry.missing
  \/ attr = translatorName /\ "translator" \in entry.missing

getAttrValue(entry, attr) ==
  IF attr = authorName THEN entry.author.name
  ELSE IF attr = translatorName THEN entry.translator.name
  ELSE IF attr = publisher
    THEN (IF "publisher" \in entry.missing THEN <<>> ELSE entry.publisher)
  ELSE IF attr = city THEN entry.city
  ELSE IF attr = sourceLanguage THEN entry.sourceLanguage
  ELSE IF attr = targetLanguage THEN entry.targetLanguage
  ELSE IF StartsWith(attr, CustomPrefix) THEN CustomField(entry, Split(attr, Colon)[2])
  ELSE <<>>

\* determineEdgeType with the publisher rule reading its first argument only.
determineEdgeType_FirstArgOnly(attr1, attr2) ==
  IF (attr1 = authorName /\ attr2 = translatorName)
       \/ (attr1 = translatorName /\ attr2 = authorName) THEN "TRANSLATION"
  ELSE IF attr1 = publisher THEN "PUBLICATION"
  ELSE IF attr1 = attr2 /\ attr1 = translatorName THEN "COLLABORATION"
  ELSE IF attr1 = city \/ attr2 = city THEN "GEOGRAPHIC"
  ELSE IF attr1 = sourceLanguage \/ attr2 = sourceLanguage
            \/ attr1 = targetLanguage \/ attr2 = targetLanguage THEN "LINGUISTIC"
  ELSE "CUSTOM"

\* determineEdgeType with the city rule tested before the publisher rule.
determineEdgeType_CityFirst(attr1, attr2) ==
  IF (attr1 = authorName /\ attr2 = translatorName)
       \/ (attr1 = translatorName /\ attr2 = authorName) THEN "TRANSLATION"
  ELSE IF attr1 = city \/ attr2 = city THEN "GEOGRAPHIC"
  ELSE IF attr1 = publisher \/ attr2 = publisher THEN "PUBLICATION"
  ELSE IF attr1 = attr2 /\ attr1 = translatorName THEN "COLLABORATION"
  ELSE IF attr1 = sourceLanguage \/ attr2 = sourceLanguage
            \/ attr1 = targetLanguage \/ attr2 = targetLanguage THEN "LINGUISTIC"
  ELSE "CUSTOM"

determineEdgeType(attr1, attr2) ==
  IF (attr1 = authorName /\ attr2 = translatorName)
       \/ (attr1 = translatorName /\ attr2 = authorName) THEN "TRANSLATION"
  ELSE IF attr1 = publisher \/ attr2 = publisher THEN "PUBLICATION"
  ELSE IF attr1 = attr2 /\ attr1 = translatorName THEN "COLLABORATION"
  ELSE IF attr1 = city \/ attr2 = city THEN "GEOGRAPHIC"
  ELSE IF attr1 = sourceLanguage \/ attr2 = sourceLanguage
            \/ attr1 = targetLanguage \/ attr2 = targetLanguage THEN "LINGUISTIC"
  ELSE "CUSTOM"

(***************************************************************************)
(* Entity/edge builder                                                     *)
(***************************************************************************)

\* The absence filter of the builder.
IsPresent(val) ==
  val # <<>> /\ val # Unknown /\ val # NotApplicable /\ Trim(val) # <<>>

\* The id of the node of a dimension and a value.
NodeId(attr, val) == attr \o Colon \o val

\* The entity mentions of one record, in selection order.
RECURSIVE Entities(_, _)
Entities(entry, attrs) ==
  IF attrs = <<>> THEN <<>>
  ELSE LET attr == Head(attrs)
           val == getAttrValue(entry, attr)
       IN (IF IsPresent(val)
             THEN <<[id |-> NodeId(attr, val), name |-> val, type |-> attr]>>
             ELSE <<>>)
          \o Entities(entry, Tail(attrs))

\* Real numbers. A closeness is kept as the fraction the code divides out; a rank is
\* kept in units of 1/Unit, every product and quotient rounded down to the unit (an
\* IEEE double carries 15 more digits; the error over all rounds stays far below the
\* tolerance ranks are compared with).
Unit == 10^6
Fraction(num, den) == [num |-> num, den |-> den]

\* A node as nodesMap.set creates it.
NewNode(e) ==
  [id |-> e.id, name |-> e.name, group |-> e.type,
   degree |-> 0, inDegree |-> 0, outDegree |-> 0,
   betweenness |-> 0, closeness |-> Fraction(0, 1), pageRank |-> 1 * Unit]

\* nodesMap after the mentions of one record: a node is added on first sight.
RECURSIVE AddNodes(_, _)
AddNodes(nodesMap, entities) ==
  IF entities = <<>> THEN nodesMap
  ELSE LET e == Head(entities)
           has == \E k \in 1..Len(nodesMap) : nodesMap[k].id = e.id
       IN AddNodes(IF has THEN nodesMap ELSE Append(nodesMap, NewNode(e)),
                   Tail(entities))

\* LinkKey that puts the smaller id first in directed mode too.
LinkKey_SortedArrow(s, t, isDirected) ==
  IF isDirected
    THEN (IF StrLess(s, t) THEN s \o Arrow \o t ELSE t \o Arrow \o s)
  ELSE IF StrLess(s, t) THEN s \o Bar \o t ELSE t \o Bar \o s

\* The key of a pair in linkMap.
LinkKey(s, t, isDirected) ==
  IF isDirected THEN s \o Arrow \o t
  ELSE IF StrLess(s, t) THEN s \o Bar \o t ELSE t \o Bar \o s

\* AddPair that sets the weight of a known key to 1 instead of incrementing it.
AddPair_WeightReset(linkMap, ei, ej, config) ==
  LET type == determineEdgeType(ei.type, ej.type) IN
  IF ~Includes(config.enabledEdgeTypes, type) THEN linkMap
  ELSE IF ei.id = ej.id THEN linkMap
  ELSE LET key == LinkKey(ei.id, ej.id, config.isDirected)
           has == \E k \in 1..Len(linkMap) : linkMap[k].key = key
       IN IF has
            THEN linkMap
            ELSE Append(linkMap, [key |-> key, weight |-> 1, type |-> type])

\* AddPair that stores a new link for every occurrence of a pair instead of adding
\* to the weight of its key.
AddPair_NoMerge(linkMap, ei, ej, config) ==
  LET type == determineEdgeType(ei.type, ej.type) IN
  IF ~Includes(config.enabledEdgeTypes, type) THEN linkMap
  ELSE IF ei.id = ej.id THEN linkMap
  ELSE Append(linkMap, [key |-> LinkKey(ei.id, ej.id, config.isDirected),
                        weight |-> 1, type |-> type])

\* AddPair without the guard that skips a pair of equal ids.
AddPair_NoSelfGuard(linkMap, ei, ej, config) ==
  LET type == determineEdgeType(ei.type, ej.type) IN
  IF ~Includes(config.enabledEdgeTypes, type) THEN linkMap
  ELSE LET key == LinkKey(ei.id, ej.id, config.isDirected)
           has == \E k \in 1..Len(linkMap) : linkMap[k].key = key
       IN IF has
            THEN [k \in 1..Len(linkMap) |->
                    IF linkMap[k].key = key
                      THEN [linkMap[k] EXCEPT !.weight = @ + 1]
                      ELSE linkMap[k]]
            ELSE Append(linkMap, [key |-> key, weight |-> 1, type |-> type])

\* linkMap after the pair (i, j) of one record's mentions.
AddPair(linkMap, ei, ej, config) ==
  LET type == determineEdgeType(ei.type, ej.type) IN
  IF ~Includes(config.enabledEdgeTypes, type) THEN linkMap
  ELSE IF ei.id = ej.id THEN linkMap
  ELSE LET key == LinkKey(ei.id, ej.id, config.isDirected)
           has == \E k \in 1..Len(linkMap) : linkMap[k].key = key
       IN IF has
            THEN [k \in 1..Len(linkMap) |->
                    IF linkMap[k].key = key
                      THEN [linkMap[k] EXCEPT !.weight = @ + 1]
                      ELSE linkMap[k]]
            ELSE Append(linkMap, [key |-> key, weight |-> 1, type |-> type])

\* The pair loop of one record: i ascending, j from i + 1.
RECURSIVE AddPairs(_, _, _, _, _)
AddPairs(linkMap, entities, i, j, config) ==
  IF i > Len(entities) THEN linkMap
  ELSE IF j > Len(entities) THEN AddPairs(linkMap, entities, i + 1, i + 2, config)
  ELSE AddPairs(AddPair(linkMap, entities[i], entities[j], config),
                entities, i, j + 1, config)

\* nodesMap and linkMap after data.forEach.
RECURSIVE BuildMaps(_, _, _)
BuildMaps(maps, entries, config) ==
  IF entries = <<>> THEN maps
  ELSE LET entities == Entities(Head(entries), config.selectedNodeAttrs)
       IN BuildMaps([nodesMap |-> AddNodes(maps.nodesMap, entities),
                     linkMap |-> AddPairs(maps.linkMap, entities, 1, 2, config)],
                    Tail(entries), config)

\* A link as decoded from its key.
DecodeLink(l, isDirected) ==
  LET parts == Split(l.key, IF isDirected THEN Arrow ELSE Bar)
  IN [source |-> parts[1], target |-> parts[2], weight |-> l.weight, type |-> l.type]

\* linkList: Array.from(linkMap.entries()).map(...)
LinkListOf(linkMap, isDirected) ==
  [k \in 1..Len(linkMap) |-> DecodeLink(linkMap[k], isDirected)]

(***************************************************************************)
(* Metrics: the adjacency and degree pass                                  *)
(***************************************************************************)

\* nodeList.findIndex(n => n.id === id), 0 for -1.
FindIndex(nodes, id) ==
  IF \E k \in 1..Len(nodes) : nodes[k].id = id
    THEN CHOOSE k \in 1..Len(nodes) :
           nodes[k].id = id /\ \A m \in 1..(k - 1) : nodes[m].id # id
    ELSE 0

\* nodeList[idx].<field>++
Bump(nodes, idx, f1, f2) ==
  [nodes EXCEPT ![idx] = [@ EXCEPT ![f1] = @ + 1, ![f2] = @ + 1]]

\* adjacency[id].push(x)
Push(adjacency, id, x) == [adjacency EXCEPT ![id] = Append(@, x)]

\* linkList.forEach of the metrics pass: adjacency[x].push on an id that is no node
\* is a TypeError, which ends the pass.
RECURSIVE DegreePass(_, _, _)
DegreePass(st, links, isDirected) ==
  IF links = <<>> \/ st.thrown # "none" THEN st
  ELSE LET l == Head(links)
           sIdx == FindIndex(st.nodes, l.source)
           tIdx == FindIndex(st.nodes, l.target)
       IN IF sIdx = 0 \/ (~isDirected /\ tIdx = 0)
            THEN [st EXCEPT !.thrown = "TypeError"]
            ELSE DegreePass(
                   [st EXCEPT
                      !.adjacency =
                        IF isDirected THEN Push(@, l.source, l.target)
                        ELSE Push(Push(@, l.source, l.target), l.target, l.source),
                      !.nodes =
                        IF tIdx # 0
                          THEN Bump(Bump(@, sIdx, "degree", "outDegree"),
                                    tIdx, "degree", "inDegree")
                          ELSE @],
                   Tail(links), isDirected)

(***************************************************************************)
(* Metrics: the breadth-first pass of closeness and betweenness            *)
(***************************************************************************)

\* adjacency[curr]?.forEach(next => ...): every neighbour not yet visited is marked,
\* queued one hop further, and, if it is a node, its betweenness is incremented.
RECURSIVE VisitNeighbours(_, _, _)
VisitNeighbours(bfs, neighbours, dist) ==
  IF neighbours = <<>> THEN bfs
  ELSE LET next == Head(neighbours)
           nIdx == FindIndex(bfs.nodes, next)
       IN VisitNeighbours(
            IF next \in bfs.visited THEN bfs
            ELSE [bfs EXCEPT
                    !.visited = @ \cup {next},
                    !.q = Append(@, <<next, dist + 1>>),
                    !.nodes = IF nIdx # 0
                                THEN [@ EXCEPT ![nIdx].betweenness = @ + 1]
                                ELSE @],
            Tail(neighbours), dist)

\* while (q.length > 0) of one start node.
RECURSIVE BfsLoop(_, _)
BfsLoop(bfs, adjacency) ==
  IF bfs.q = <<>> THEN bfs
  ELSE LET curr == Head(bfs.q)[1]
           dist == Head(bfs.q)[2]
           popped == [bfs EXCEPT !.q = Tail(@),
                                 !.totalDist = @ + dist,
                                 !.reachable = IF dist > 0 THEN @ + 1 ELSE @]
       IN BfsLoop(VisitNeighbours(popped,
                                  IF curr \in DOMAIN adjacency THEN adjacency[curr] ELSE <<>>,
                                  dist),
                  adjacency)

\* nodeList.forEach(startNode => ...): the traversal from each node in turn, and the
\* closeness it leaves on the start node.
RECURSIVE ClosenessPass(_, _, _)
ClosenessPass(nodes, adjacency, k) ==
  IF k > Len(nodes) THEN nodes
  ELSE LET start == nodes[k].id
           bfs == BfsLoop([q |-> << <<start, 0>> >>, visited |-> {start},
                           totalDist |-> 0, reachable |-> 0, nodes |-> nodes],
                          adjacency)
           sIdx == FindIndex(bfs.nodes, start)
       IN ClosenessPass(
            IF sIdx # 0 /\ bfs.reachable > 0
              THEN [bfs.nodes EXCEPT ![sIdx].closeness =
                      Fraction(bfs.reachable, bfs.totalDist)]
              ELSE bfs.nodes,
            adjacency, k + 1)

(***************************************************************************)
(* Metrics: PageRank                                                       *)
(***************************************************************************)

\* The number of power-iteration rounds.
PageRankRounds == 10

\* 0.85 * x and 0.15 as ranks.
Damped(x) == (85 * x) \div 100
Teleport == (15 * Unit) \div 100

\* How often id occurs in a list of ids.
Occurrences(ids, id) == Cardinality({m \in 1..Len(ids) : ids[m] = id})

\* What the node at index k adds to nextPR[id] in one round: its share along each of
\* its adjacency entries, or, when it has none, its share for every node.
Contribution(nodes, adjacency, k, id) ==
  LET out == Len(adjacency[nodes[k].id]) IN
  IF out > 0
    THEN Occurrences(adjacency[nodes[k].id], id) * Damped(nodes[k].pageRank \div out)
    ELSE Damped(nodes[k].pageRank \div Len(nodes))

\* nextPR[id] once the nodes up to index k have added their shares.
RECURSIVE NextPR(_, _, _, _)
NextPR(nodes, adjacency, k, id) ==
  IF k = 0 THEN Teleport \div Len(nodes)
  ELSE NextPR(nodes, adjacency, k - 1, id) + Contribution(nodes, adjacency, k, id)

\* for (let iter = 0; iter < 10; iter++): each round replaces every pageRank.
RECURSIVE PageRankPass(_, _, _)
PageRankPass(nodes, adjacency, iter) ==
  IF iter >= PageRankRounds THEN nodes
  ELSE PageRankPass(
         [k \in 1..Len(nodes) |->
            [nodes[k] EXCEPT !.pageRank = NextPR(nodes, adjacency, Len(nodes), nodes[k].id)]],
         adjacency, iter + 1)

\* Whether the resolver raises on some record and active dimension.
ResolverThrows(entries, config) ==
  \E r \in 1..Len(entries) :
    \E k \in 1..Len(config.selectedNodeAttrs) :
      Throws(entries[r], config.selectedNodeAttrs[k])

\* The body of the memo callback over given maps: nodes and links as the callback
\* leaves them, and whether it threw. An exception of the resolver leaves
\* data.forEach and the callback, so nothing is produced.
GraphDataOn(maps0, entries, config) ==
  IF ResolverThrows(entries, config)
    THEN [nodes |-> <<>>, links |-> <<>>, thrown |-> "TypeError"]
  ELSE
  LET maps == BuildMaps(maps0, entries, config)
      links == LinkListOf(maps.linkMap, config.isDirected)
      ids == {maps.nodesMap[k].id : k \in 1..Len(maps.nodesMap)}
      st == DegreePass([nodes |-> maps.nodesMap, adjacency |-> [id \in ids |-> <<>>],
                        thrown |-> "none"],
                       links, config.isDirected)
  IN IF st.thrown # "none"
       THEN [nodes |-> st.nodes, links |-> links, thrown |-> st.thrown]
       ELSE [nodes |-> PageRankPass(ClosenessPass(st.nodes, st.adjacency, 1),
                                    st.adjacency, 0),
             links |-> links, thrown |-> "none"]

\* The graphData memo: every run of the callback starts from two new, empty maps.
GraphData(entries, config) ==
  GraphDataOn([nodesMap |-> <<>>, linkMap |-> <<>>], entries, config)

(***************************************************************************)
(* The component: the data prop, the config state, the graphData memo      *)
(***************************************************************************)

\* How many entries the archive holds at most.
MaxEntries == 3
\* How many entries a session of the component saves at most.
MaxSaves == 2
\* How many toggle clicks a session makes at most.
MaxClicks == 2

\* A BibEntry, by the fields the resolver reads. missing names the properties that
\* are undefined on the object: none on an entry of the form.
BibEntry(a, t, p, c, sl, tl, cm) ==
  [author |-> [name |-> a], translator |-> [name |-> t], publisher |-> p, city |-> c,
   sourceLanguage |-> sl, targetLanguage |-> tl, customMetadata |-> cm, missing |-> {}]

\* The entries a user saves: the two records of scenario 1 (with a custom field x),
\* a record with sentinel values, one with padded and lower-case sentinels, and
\* four whose names contain the characters of the link keys.
EntryAB == BibEntry(<<"A">>, <<"B">>, <<"P", "1">>, <<"L">>, <<"p", "t">>, <<"z", "h">>,
                    (<<"x">> :> <<"y", ":", "z">>))
EntryAC == BibEntry(<<"A">>, <<"C">>, <<"P", "1">>, <<"L">>, <<"p", "t">>, <<"z", "h">>,
                    (<<"x">> :> <<"z">>))
EntrySentinel == BibEntry(Unknown, <<"B">>, NotApplicable, <<>>, <<"p", "t">>, <<>>,
                          (<<"x">> :> Unknown))
EntryPadded == BibEntry(<<" ", "U", "n", "k", "n", "o", "w", "n", " ">>,
                        <<"u", "n", "k", "n", "o", "w", "n">>,
                        <<"N", "/", "A", " ">>, <<"n", "/", "a">>, <<" ">>, <<>>,
                        <<>>)
EntryArrowT == BibEntry(<<"a">>,
                        <<"b", "-", ">", "p", "u", "b", "l", "i", "s", "h", "e", "r", ":", "p">>,
                        <<>>, <<>>, <<>>, <<>>, <<>>)
EntryArrowA == BibEntry(<<"a", "-", ">", "t", "r", "a", "n", "s", "l", "a", "t", "o", "r",
                          "N", "a", "m", "e", ":", "b">>,
                        <<>>, <<"p">>, <<>>, <<>>, <<>>, <<>>)
EntryArrowSelf == BibEntry(<<"a", "-", ">", "a", "u", "t", "h", "o", "r", "N", "a", "m", "e",
                             ":", "a">>,
                           <<>>, <<"p">>, <<>>, <<>>, <<>>, <<>>)

EntryBarT == BibEntry(<<"a">>,
                      <<"b", "-", ">", "p", "u", "b", "l", "i", "s", "h", "e", "r", ":", "p",
                        "|", "c">>,
                      <<>>, <<>>, <<>>, <<>>, <<>>)

Entries ==
  {EntryAB, EntryAC, EntrySentinel, EntryPadded, EntryArrowT, EntryArrowA, EntryArrowSelf,
   EntryBarT}

\* The initial config state of the component.
InitialConfig ==
  [selectedNodeAttrs |-> <<authorName, translatorName, publisher>>,
   isDirected |-> TRUE,
   enabledEdgeTypes |-> EdgeTypes]

VARIABLES
  data,        \* the data prop: the active project's entries
  config,      \* the config state
  graphData,   \* the graphData memo of data and config
  clicks,      \* clicks made so far
  classified   \* the last call of determineEdgeType: its arguments and its result

vars == <<data, config, graphData, clicks, classified>>

Classification(a, b) == [attr1 |-> a, attr2 |-> b, type |-> determineEdgeType(a, b)]

Init ==
  /\ data = <<>>
  /\ config = InitialConfig
  /\ graphData = GraphData(data, config)
  /\ clicks = 0
  /\ classified = Classification(authorName, translatorName)

\* handleSaveEntry of a new entry: it is put first, and the memo recomputes.
SaveEntry(entry) ==
  /\ Len(data) < MaxEntries
  /\ data' = <<entry>> \o data
  /\ graphData' = GraphData(data', config)
  /\ UNCHANGED <<config, clicks, classified>>

\* ToggleNodeAttr that appends the dimension whether or not it is selected.
ToggleNodeAttr_AlwaysAppend(attr) ==
  /\ clicks < MaxClicks
  /\ clicks' = clicks + 1
  /\ config' = [config EXCEPT !.selectedNodeAttrs = Append(@, attr)]
  /\ graphData' = GraphData(data, config')
  /\ UNCHANGED <<data, classified>>

\* The click on a dimension button of the control panel.
ToggleNodeAttr(attr) ==
  /\ clicks < MaxClicks
  /\ clicks' = clicks + 1
  /\ config' = [config EXCEPT !.selectedNodeAttrs =
                  IF Includes(@, attr) THEN Without(@, attr) ELSE Append(@, attr)]
  /\ graphData' = GraphData(data, config')
  /\ UNCHANGED <<data, classified>>

\* The click on a relationship type of the legend.
ToggleEdgeType(type) ==
  /\ clicks < MaxClicks
  /\ clicks' = clicks + 1
  /\ config' = [config EXCEPT !.enabledEdgeTypes =
                  IF Includes(@, type) THEN Without(@, type) ELSE Append(@, type)]
  /\ graphData' = GraphData(data, config')
  /\ UNCHANGED <<data, classified>>

Next ==
  \/ \E entry \in Entries : Len(data) < MaxSaves /\ SaveEntry(entry)
  \/ \E attr \in Range(availableAttributes) : ToggleNodeAttr(attr)
  \/ \E type \in Range(EdgeTypes) : ToggleEdgeType(type)

Spec == Init /\ [][Next]_vars

(***************************************************************************)
(* The control panel alone: the two toggles over an empty archive.         *)
(***************************************************************************)

NextToggle ==
  \/ \E attr \in Range(availableAttributes) : ToggleNodeAttr(attr)
  \/ \E type \in Range(EdgeTypes) : ToggleEdgeType(type)

SpecToggle == Init /\ [][NextToggle]_vars

(***************************************************************************)
(* The component mounted on a stored project: the entries come from the    *)
(* projects parsed from localStorage, and the network view is left and     *)
(* opened again.                                                           *)
(***************************************************************************)

\* How many entries the stored project holds at most.
MaxLoaded == 2

\* Stored entries that lack a property: the author object, the translator object,
\* the publisher and the custom-field map.
EntryNoAuthor ==
  [BibEntry(<<>>, <<"B">>, <<"P", "1">>, <<>>, <<>>, <<>>, <<>>) EXCEPT !.missing = {"author"}]
EntryNoTranslator ==
  [BibEntry(<<"A">>, <<>>, <<"P", "1">>, <<>>, <<>>, <<>>, <<>>)
     EXCEPT !.missing = {"translator"}]
EntryNoPublisher ==
  [BibEntry(<<"A">>, <<"B">>, <<>>, <<>>, <<>>, <<>>, <<>>)
     EXCEPT !.missing = {"publisher", "customMetadata"}]

\* The entries of a stored project: those of the form and the three above.
LoadedEntries == Entries \cup {EntryNoAuthor, EntryNoTranslator, EntryNoPublisher}

InitMount ==
  /\ data \in UNION {[1..n -> LoadedEntries] : n \in 0..MaxLoaded}
  /\ config = InitialConfig
  /\ graphData = GraphData(data, config)
  /\ clicks = 0
  /\ classified = Classification(authorName, translatorName)

\* Remount whose callback finds the node objects of the previous build in its
\* nodesMap.
Remount_KeepsNodes ==
  /\ clicks < MaxClicks
  /\ clicks' = clicks + 1
  /\ config' = InitialConfig
  /\ graphData' = GraphDataOn([nodesMap |-> graphData.nodes, linkMap |-> <<>>],
                              data, config')
  /\ UNCHANGED <<data, classified>>

\* The click that leaves the network view and the click that opens it again: the
\* component is mounted anew, with its initial config, and the memo callback runs
\* again on the same entries.
Remount ==
  /\ clicks < MaxClicks
  /\ clicks' = clicks + 1
  /\ config' = InitialConfig
  /\ graphData' = GraphData(data, config')
  /\ UNCHANGED <<data, classified>>

NextMount == Remount

SpecMount == InitMount /\ [][NextMount]_vars

(***************************************************************************)
(* The build as a function of its inputs: any of a few configurations, in  *)
(* directed and in undirected mode, over a growing record list.            *)
(***************************************************************************)

BuildAttrLists ==
  { <<authorName, translatorName, publisher>>,
    <<authorName, translatorName, publisher, CustomPrefix \o <<"x">>,
      CustomPrefix \o <<"x", ":", "y">> >>,
    <<publisher, city, sourceLanguage, authorName>>,
    <<CustomPrefix \o <<"x">>, authorName, CustomPrefix \o <<"x", ":", "y">> >>,
    <<>> }

BuildTypeLists ==
  { EdgeTypes,
    Without(EdgeTypes, "PUBLICATION"),
    <<"PUBLICATION", "GEOGRAPHIC">> }

InitBuild ==
  /\ data = <<>>
  /\ config \in [selectedNodeAttrs : BuildAttrLists, isDirected : BOOLEAN,
                 enabledEdgeTypes : BuildTypeLists]
  /\ graphData = GraphData(data, config)
  /\ clicks = 0
  /\ classified = Classification(authorName, translatorName)

\* The records of the builds: those of scenario 1, one with sentinels and two with the
\* characters of the link keys.
BuildEntries == {EntryAB, EntryAC, EntrySentinel, EntryArrowT, EntryBarT}

NextBuild == \E entry \in BuildEntries : SaveEntry(entry)

SpecBuild == InitBuild /\ [][NextBuild]_vars

(***************************************************************************)
(* The build over dimension lists that name a dimension more than once.    *)
(***************************************************************************)

RepeatAttrLists ==
  { <<translatorName, translatorName>>,
    <<authorName, translatorName, translatorName>>,
    <<translatorName, authorName, translatorName>>,
    <<translatorName, publisher, translatorName, translatorName>>,
    <<authorName, translatorName>> }

RepeatTypeLists == { EdgeTypes, <<"COLLABORATION">>, <<"COLLABORATION", "TRANSLATION">> }

InitRepeat ==
  /\ data = <<>>
  /\ config \in [selectedNodeAttrs : RepeatAttrLists, isDirected : BOOLEAN,
                 enabledEdgeTypes : RepeatTypeLists]
  /\ graphData = GraphData(data, config)
  /\ clicks = 0
  /\ classified = Classification(translatorName, translatorName)

\* The records of these builds: those of scenario 1 and one with the arrow in the
\* translator's name.
RepeatEntries == {EntryAB, EntryAC, EntryArrowT}

NextRepeat == \E entry \in RepeatEntries : SaveEntry(entry)

SpecRepeat == InitRepeat /\ [][NextRepeat]_vars

(***************************************************************************)
(* The classifier as a function of its two dimension keys.                 *)
(***************************************************************************)

\* Dimension keys: the available ones, two more custom keys and an unknown key.
DimensionKeys ==
  Range(availableAttributes)
    \cup {CustomPrefix, CustomPrefix \o <<"G", "e", "n", "r", "e">>, <<"t", "i", "t", "l", "e">>}

InitClassify ==
  /\ data = <<>>
  /\ config = InitialConfig
  /\ graphData = GraphData(data, config)
  /\ clicks = 0
  /\ \E a \in DimensionKeys : classified = Classification(a, a)

Classify(a, b) ==
  /\ classified' = Classification(a, b)
  /\ UNCHANGED <<data, config, graphData, clicks>>

NextClassify == \E a, b \in DimensionKeys : Classify(a, b)

SpecClassify == InitClassify /\ [][NextClassify]_vars

(***************************************************************************)
(* Properties of the build                                                 *)
(***************************************************************************)

Completed == graphData.thrown = "none"

NodeIds == {graphData.nodes[k].id : k \in 1..Len(graphData.nodes)}

\* The (dimension, value) pairs of the active dimensions whose value passes the
\* absence filter on some record.
ObservedPairs ==
  {pv \in {<<attr, getAttrValue(data[k], attr)>> :
             attr \in Range(config.selectedNodeAttrs), k \in 1..Len(data)} :
     IsPresent(pv[2])}

\* C1: when the build completes, the node list holds exactly one node per observed
\* (dimension, value) pair: no two nodes share an id, every observed pair has its
\* node (of that dimension and that value), and there are as many nodes as pairs.
C1_OneNodePerPair ==
  Completed =>
    /\ \A i, j \in 1..Len(graphData.nodes) :
         graphData.nodes[i].id = graphData.nodes[j].id => i = j
    /\ \A pv \in ObservedPairs :
         \E k \in 1..Len(graphData.nodes) :
           graphData.nodes[k].group = pv[1] /\ graphData.nodes[k].name = pv[2]
    /\ Len(graphData.nodes) = Cardinality(ObservedPairs)

\* Whether a record mentions s and t as a pair of its mentions with an enabled edge
\* type: in that order in directed mode, in either order in undirected mode.
Mentions(entry, s, t, cfg) ==
  LET es == Entities(entry, cfg.selectedNodeAttrs) IN
  \E i, j \in 1..Len(es) :
    /\ i < j
    /\ Includes(cfg.enabledEdgeTypes, determineEdgeType(es[i].type, es[j].type))
    /\ \/ es[i].id = s /\ es[j].id = t
       \/ ~cfg.isDirected /\ es[i].id = t /\ es[j].id = s

\* C2: when the build completes, the weight of every edge is the number of records
\* that mention its two endpoints as a pair with an enabled type.
C2_WeightCountsRecords ==
  Completed =>
    \A k \in 1..Len(graphData.links) :
      LET l == graphData.links[k] IN
      l.weight = Cardinality({r \in 1..Len(data) :
                                Mentions(data[r], l.source, l.target, config)})

\* C3: when the build completes, no edge has its source id equal to its target id.
C3_NoSelfLoop ==
  Completed =>
    \A k \in 1..Len(graphData.links) :
      graphData.links[k].source # graphData.links[k].target

\* The weight of the edge from s to t in a link list, 0 when there is none.
WeightIn(links, s, t) ==
  IF \E k \in 1..Len(links) : links[k].source = s /\ links[k].target = t
    THEN links[CHOOSE k \in 1..Len(links) :
                 links[k].source = s /\ links[k].target = t].weight
    ELSE 0

\* The step that adds one record under the same configuration, both builds
\* completing.
AddsRecord ==
  /\ config' = config
  /\ Len(data') = Len(data) + 1
  /\ Tail(data') = data
  /\ graphData.thrown = "none"
  /\ graphData'.thrown = "none"

\* C4: adding one record r raises by exactly 1 the weight of every edge whose node
\* pair r mentions with an enabled type (creating it with weight 1 when new), keeps
\* the weight and the type of every other edge, and loses no edge.
C4_WeightMonotone ==
  [][AddsRecord =>
       /\ \A k \in 1..Len(graphData'.links) :
            LET l == graphData'.links[k] IN
            l.weight = WeightIn(graphData.links, l.source, l.target)
                         + (IF Mentions(Head(data'), l.source, l.target, config)
                              THEN 1 ELSE 0)
       /\ \A k \in 1..Len(graphData.links) :
            LET l == graphData.links[k] IN
            \E m \in 1..Len(graphData'.links) :
              /\ graphData'.links[m].source = l.source
              /\ graphData'.links[m].target = l.target
              /\ graphData'.links[m].type = l.type]_vars

\* C5: the classifier is symmetric: the type of the classified pair is the type of
\* the pair with its two dimension keys exchanged.
C5_ClassifySymmetric ==
  classified.type = determineEdgeType(classified.attr2, classified.attr1)

\* C5 witness: an asymmetric-looking pair (publisher first, a custom key second) has
\* been classified.
C5_Witness ==
  /\ classified.attr1 = publisher
  /\ classified.attr2 = CustomPrefix \o <<"x">>
  /\ classified.type = "PUBLICATION"

\* The precedence table of the classifier, on the set of the two keys.
Precedence(a, b) ==
  CASE {a, b} = {authorName, translatorName} -> "TRANSLATION"
    [] {a, b} # {authorName, translatorName} /\ publisher \in {a, b} -> "PUBLICATION"
    [] OTHER ->
         IF a = translatorName /\ b = translatorName THEN "COLLABORATION"
         ELSE IF city \in {a, b} THEN "GEOGRAPHIC"
         ELSE IF {a, b} \cap {sourceLanguage, targetLanguage} # {} THEN "LINGUISTIC"
         ELSE "CUSTOM"

\* C6: the classified type follows the fixed precedence, first match wins; so
\* (publisher, city) is PUBLICATION, (city, sourceLanguage) is GEOGRAPHIC and
\* (authorName, custom:x) is CUSTOM.
C6_ClassifyPrecedence ==
  /\ classified.type = Precedence(classified.attr1, classified.attr2)
  /\ (classified.attr1 = publisher /\ classified.attr2 = city
        => classified.type = "PUBLICATION")
  /\ (classified.attr1 = city /\ classified.attr2 = sourceLanguage
        => classified.type = "GEOGRAPHIC")
  /\ (classified.attr1 = authorName /\ classified.attr2 = CustomPrefix \o <<"x">>
        => classified.type = "CUSTOM")

\* C6 witness: the pair (city, publisher), which two rules match, has been classified
\* by the earlier one.
C6_Witness ==
  /\ classified.attr1 = city
  /\ classified.attr2 = publisher
  /\ classified.type = "PUBLICATION"

\* The nodes of a graph by id, name and dimension (without the metric fields).
NodeKeys(g) ==
  {[id |-> g.nodes[k].id, name |-> g.nodes[k].name, group |-> g.nodes[k].group] :
     k \in 1..Len(g.nodes)}

\* The graph of the same records, dimensions and mode with all six types enabled.
FullGraph == GraphData(data, [config EXCEPT !.enabledEdgeTypes = EdgeTypes])

\* C7: enabledEdgeTypes is a mask: when both builds complete, the graph has the
\* nodes of the graph built with all six types enabled, and its edges are exactly the
\* edges of that graph whose type is enabled, with the same weights and types.
C7_EnabledTypesMask ==
  (Completed /\ FullGraph.thrown = "none") =>
    /\ NodeKeys(graphData) = NodeKeys(FullGraph)
    /\ Range(graphData.links)
         = {l \in Range(FullGraph.links) : Includes(config.enabledEdgeTypes, l.type)}

Sentinels == {<<>>, Unknown, NotApplicable}

\* Whether the link list has the edge of the pair of mentions ei, ej (ei the earlier
\* one): from ei to ej in directed mode, between them in undirected mode.
HasEdge(links, ei, ej, isDirected) ==
  \E k \in 1..Len(links) :
    \/ links[k].source = ei.id /\ links[k].target = ej.id
    \/ ~isDirected /\ links[k].source = ej.id /\ links[k].target = ei.id

\* C8: when the build completes, a record whose value for a selected dimension is
\* "", "Unknown" or "N/A" has no mention of that dimension, there is no node of that
\* dimension and value and no edge to or from its id, and the record's other mentions
\* have their nodes and, pairwise, their edges (where the type is enabled and the ids
\* differ).
C8_SentinelSkipsOneDimension ==
  Completed =>
    \A r \in 1..Len(data) : \A attr \in Range(config.selectedNodeAttrs) :
      LET val == getAttrValue(data[r], attr)
          es == Entities(data[r], config.selectedNodeAttrs)
      IN val \in Sentinels =>
           /\ \A i \in 1..Len(es) : es[i].type # attr
           /\ \A k \in 1..Len(graphData.nodes) :
                ~(graphData.nodes[k].group = attr /\ graphData.nodes[k].name = val)
           /\ \A k \in 1..Len(graphData.links) :
                /\ graphData.links[k].source # NodeId(attr, val)
                /\ graphData.links[k].target # NodeId(attr, val)
           /\ \A i \in 1..Len(es) : es[i].id \in NodeIds
           /\ \A i, j \in 1..Len(es) :
                (/\ i < j
                 /\ es[i].id # es[j].id
                 /\ Includes(config.enabledEdgeTypes,
                             determineEdgeType(es[i].type, es[j].type)))
                  => HasEdge(graphData.links, es[i], es[j], config.isDirected)

LowerCaseSentinels == {<<"u", "n", "k", "n", "o", "w", "n">>, <<"n", "/", "a">>}

\* C9: the absence filter is on the trimmed value and is case-sensitive: when the
\* build completes, a selected dimension's value whose trimmed form is "", "Unknown"
\* or "N/A" has no node, and a value "unknown" or "n/a" has one.
C9_FilterTrimsAndKeepsCase ==
  Completed =>
    \A r \in 1..Len(data) : \A attr \in Range(config.selectedNodeAttrs) :
      LET val == getAttrValue(data[r], attr) IN
      /\ Trim(val) \in Sentinels => NodeId(attr, val) \notin NodeIds
      /\ val \in LowerCaseSentinels => NodeId(attr, val) \in NodeIds

\* The configuration of scenario 1.
Scenario1Config ==
  [selectedNodeAttrs |-> <<authorName, translatorName, publisher>>,
   isDirected |-> FALSE,
   enabledEdgeTypes |-> EdgeTypes]

\* Scenario 1 is built: its two records (A, B, P1) and (A, C, P1), in this order.
Scenario1 ==
  /\ Len(data) = 2
  /\ \A r \in 1..2 :
       /\ data[r].author.name = <<"A">>
       /\ data[r].publisher = <<"P", "1">>
  /\ data[1].translator.name = <<"B">>
  /\ data[2].translator.name = <<"C">>
  /\ config = Scenario1Config

\* The edges of a link list as unordered pairs with weight and type.
UndirectedEdges(links) ==
  {[ends |-> {links[k].source, links[k].target}, weight |-> links[k].weight,
    type |-> links[k].type] : k \in 1..Len(links)}

\* C10: scenario 1 yields exactly the nodes A (author), B and C (translator) and P1
\* (publisher), exactly the edges A-B 1 TRANSLATION, A-P1 2 PUBLICATION, B-P1 1
\* PUBLICATION, A-C 1 TRANSLATION and C-P1 1 PUBLICATION, and degree(A) = 3.
C10_Scenario1 ==
  Scenario1 =>
    LET A == NodeId(authorName, <<"A">>)
        B == NodeId(translatorName, <<"B">>)
        C == NodeId(translatorName, <<"C">>)
        P1 == NodeId(publisher, <<"P", "1">>)
    IN /\ Completed
       /\ Len(graphData.nodes) = 4
       /\ NodeKeys(graphData)
            = {[id |-> A, name |-> <<"A">>, group |-> authorName],
               [id |-> B, name |-> <<"B">>, group |-> translatorName],
               [id |-> C, name |-> <<"C">>, group |-> translatorName],
               [id |-> P1, name |-> <<"P", "1">>, group |-> publisher]}
       /\ Len(graphData.links) = 5
       /\ UndirectedEdges(graphData.links)
            = {[ends |-> {A, B}, weight |-> 1, type |-> "TRANSLATION"],
               [ends |-> {A, P1}, weight |-> 2, type |-> "PUBLICATION"],
               [ends |-> {B, P1}, weight |-> 1, type |-> "PUBLICATION"],
               [ends |-> {A, C}, weight |-> 1, type |-> "TRANSLATION"],
               [ends |-> {C, P1}, weight |-> 1, type |-> "PUBLICATION"]}
       /\ graphData.nodes[FindIndex(graphData.nodes, A)].degree = 3

\* C10 witness: scenario 1 has been built, with A-P1 met twice.
C10_Witness ==
  /\ Scenario1
  /\ \E k \in 1..Len(graphData.links) : graphData.links[k].weight = 2

(***************************************************************************)
(* Edge direction and edge uniqueness                                      *)
(***************************************************************************)

\* The position of a dimension in the active dimension list, 0 if it is not there.
Position(attrs, attr) ==
  IF \E k \in 1..Len(attrs) : attrs[k] = attr
    THEN CHOOSE k \in 1..Len(attrs) :
           attrs[k] = attr /\ \A m \in 1..(k - 1) : attrs[m] # attr
    ELSE 0

\* The node of an id in the built graph.
NodeOf(id) == graphData.nodes[FindIndex(graphData.nodes, id)]

\* C11: in directed mode every edge between two nodes points from the node of the
\* earlier-selected dimension to the node of the later-selected dimension.
C11_DirectedFollowsSelection ==
  (Completed /\ config.isDirected) =>
    \A k \in 1..Len(graphData.links) :
      LET l == graphData.links[k] IN
      (l.source \in NodeIds /\ l.target \in NodeIds) =>
        Position(config.selectedNodeAttrs, NodeOf(l.source).group)
          < Position(config.selectedNodeAttrs, NodeOf(l.target).group)

\* The linkMap of the build of the current data and config.
LinkMap == BuildMaps([nodesMap |-> <<>>, linkMap |-> <<>>], data, config).linkMap

\* The mentions of every record of the data.
AllEntities == [r \in 1..Len(data) |-> Entities(data[r], config.selectedNodeAttrs)]

\* The pairs of mentions (record r, positions i < j) with an enabled type and two
\* different ids.
PairOccurrences(es) ==
  {rij \in {<<r, i, j>> : r \in 1..Len(data), i \in 1..Len(config.selectedNodeAttrs),
                          j \in 1..Len(config.selectedNodeAttrs)} :
     /\ rij[2] < rij[3]
     /\ rij[3] <= Len(es[rij[1]])
     /\ Includes(config.enabledEdgeTypes,
                 determineEdgeType(es[rij[1]][rij[2]].type, es[rij[1]][rij[3]].type))
     /\ es[rij[1]][rij[2]].id # es[rij[1]][rij[3]].id}

EdgesFrom(id) == Cardinality({k \in 1..Len(graphData.links) : graphData.links[k].source = id})
EdgesTo(id) == Cardinality({k \in 1..Len(graphData.links) : graphData.links[k].target = id})

\* C14: in directed mode, when the build completes, the out-degree of every node is
\* the number of edges whose source it is, its in-degree the number of edges whose
\* target it is, and its degree their sum.
C14_DirectedDegrees ==
  (Completed /\ config.isDirected) =>
    \A k \in 1..Len(graphData.nodes) :
      LET n == graphData.nodes[k] IN
      /\ n.outDegree = EdgesFrom(n.id)
      /\ n.inDegree = EdgesTo(n.id)
      /\ n.degree = n.outDegree + n.inDegree

Succ(id) ==
  {graphData.links[k].target : k \in {m \in 1..Len(graphData.links) :
                                        graphData.links[m].source = id}}
    \cup (IF config.isDirected THEN {}
          ELSE {graphData.links[k].source : k \in {m \in 1..Len(graphData.links) :
                                                     graphData.links[m].target = id}})

\* The nodes at exactly d more hops from a frontier, none of them seen before.
RECURSIVE Layer(_, _, _)
Layer(frontier, seen, d) ==
  IF d = 0 THEN frontier
  ELSE LET next == ((UNION {Succ(f) : f \in frontier}) \cap NodeIds) \ seen
       IN IF next = {} THEN {} ELSE Layer(next, seen \cup next, d - 1)

\* The nodes at exactly d hops from node s.
AtDistance(s, d) == Layer({s}, {s}, d)

\* The number of nodes other than s reachable from s, and the sum of their hop
\* distances (no shortest path is longer than the number of nodes).
ReachableFrom(s) ==
  Cardinality(UNION {AtDistance(s, d) : d \in 1..Len(graphData.nodes)})
RECURSIVE HopSum(_, _)
HopSum(s, d) ==
  IF d = 0 THEN 0 ELSE d * Cardinality(AtDistance(s, d)) + HopSum(s, d - 1)

\* C16: when the build completes, the closeness of every node is the number of other
\* nodes reachable from it divided by the sum of their shortest-path hop distances,
\* and 0 when no other node is reachable.
C16_Closeness ==
  Completed =>
    \A k \in 1..Len(graphData.nodes) :
      LET n == graphData.nodes[k]
          reachable == ReachableFrom(n.id)
          total == HopSum(n.id, Len(graphData.nodes))
      IN IF reachable = 0 THEN n.closeness.num = 0
         ELSE n.closeness.num * total = reachable * n.closeness.den

\* The hop distance from node s to node t, -1 when t is not reachable from s.
Dist(s, t) ==
  IF \E d \in 0..Len(graphData.nodes) : t \in AtDistance(s, d)
    THEN CHOOSE d \in 0..Len(graphData.nodes) : t \in AtDistance(s, d)
    ELSE -1

\* The sum and the product of a function over a finite set of its domain.
RECURSIVE SumOver(_, _)
SumOver(S, f) ==
  IF S = {} THEN 0 ELSE LET x == CHOOSE y \in S : TRUE IN f[x] + SumOver(S \ {x}, f)
RECURSIVE ProductOver(_, _)
ProductOver(S, f) ==
  IF S = {} THEN 1 ELSE LET x == CHOOSE y \in S : TRUE IN f[x] * ProductOver(S \ {x}, f)

\* sigma_st: the number of shortest paths from node s to node t (0 when there is
\* none), counted over the last hop.
RECURSIVE Sigma(_, _)
Sigma(s, t) ==
  IF s = t THEN 1
  ELSE IF Dist(s, t) < 0 THEN 0
  ELSE LET before == {u \in NodeIds : t \in Succ(u) /\ Dist(s, u) = Dist(s, t) - 1}
       IN SumOver(before, [u \in before |-> Sigma(s, u)])

\* sigma_st(v): the number of shortest paths from s to t that pass through v.
SigmaThrough(s, t, v) ==
  IF Dist(s, v) >= 0 /\ Dist(v, t) >= 0 /\ Dist(s, v) + Dist(v, t) = Dist(s, t)
    THEN Sigma(s, v) * Sigma(v, t)
    ELSE 0

\* The ordered pairs (s, t) of distinct nodes other than v with t reachable from s.
PairsAround(v) ==
  {st \in (NodeIds \ {v}) \X (NodeIds \ {v}) : st[1] # st[2] /\ Dist(st[1], st[2]) > 0}

\* C17: when the build completes, the betweenness of every node v is the dependency
\* sum of the standard algorithm, the sum over the ordered pairs (s, t) around v of
\* sigma_st(v) / sigma_st; the equation is multiplied by a common multiple of the
\* sigma_st. A node on no shortest path between two others has betweenness 0.
C17_Betweenness ==
  Completed =>
    \A k \in 1..Len(graphData.nodes) :
      LET v == graphData.nodes[k].id
          counts == {Sigma(st[1], st[2]) : st \in PairsAround(v)}
          multiple == ProductOver(counts, [c \in counts |-> c])
          share == [st \in PairsAround(v) |->
                      SigmaThrough(st[1], st[2], v) * (multiple \div Sigma(st[1], st[2]))]
      IN graphData.nodes[k].betweenness * multiple = SumOver(PairsAround(v), share)

(***************************************************************************)
(* PageRank                                                                *)
(***************************************************************************)

\* Ranks are compared within a thousandth.
RankTolerance == Unit \div 1000
Near(x, y) == x - y <= RankTolerance /\ y - x <= RankTolerance

\* The sum of pageRank over a node list.
RECURSIVE RankSum(_)
RankSum(nodes) ==
  IF nodes = <<>> THEN 0 ELSE Head(nodes).pageRank + RankSum(Tail(nodes))

\* C18: when the build completes on a non-empty graph, the sum of pageRank over all
\* nodes is 1 within tolerance.
C18_PageRankSumsToOne ==
  (Completed /\ graphData.nodes # <<>>) =>
    Near(RankSum(graphData.nodes), 1 * Unit)

\* The out-edges of node u: the edges it is the source of and, in undirected mode,
\* also those it is the target of. OutEnds gives, for each of them, the other end.
OutEdges(u) ==
  {k \in 1..Len(graphData.links) :
     \/ graphData.links[k].source = u
     \/ ~config.isDirected /\ graphData.links[k].target = u}
InEdges(v) ==
  {k \in 1..Len(graphData.links) :
     \/ graphData.links[k].target = v
     \/ ~config.isDirected /\ graphData.links[k].source = v}
OtherEnd(k, v) ==
  IF graphData.links[k].target = v THEN graphData.links[k].source
  ELSE graphData.links[k].target

\* One round of the power iteration as the claim states it.
ClaimedRound(rank) ==
  LET n == Cardinality(NodeIds)
      sinks == {s \in NodeIds : OutEdges(s) = {}}
      sinkShare == SumOver(sinks, [s \in sinks |-> rank[s] \div n])
  IN [v \in NodeIds |->
        LET in == {k \in InEdges(v) : OtherEnd(k, v) \in NodeIds}
        IN Teleport \div n
             + Damped(SumOver(in, [k \in in |->
                                     rank[OtherEnd(k, v)]
                                       \div Cardinality(OutEdges(OtherEnd(k, v)))])
                      + sinkShare)]

RECURSIVE ClaimedRank(_, _)
ClaimedRank(rank, rounds) ==
  IF rounds = 0 THEN rank ELSE ClaimedRank(ClaimedRound(rank), rounds - 1)

\* C19: when the build completes, the pageRank of every node is what the rounds of
\* the power iteration with damping 0.85 give when started from the uniform rank 1/n.
C19_PageRankFromUniform ==
  (Completed /\ graphData.nodes # <<>>) =>
    LET uniform == [v \in NodeIds |-> Unit \div Cardinality(NodeIds)]
        claimed == ClaimedRank(uniform, PageRankRounds)
    IN \A k \in 1..Len(graphData.nodes) :
         Near(graphData.nodes[k].pageRank, claimed[graphData.nodes[k].id])

(***************************************************************************)
(* Graph-level metrics                                                     *)
(***************************************************************************)

\* GlobalMetrics that divides without testing the node count first.
GlobalMetrics_Unguarded(graph, isDirected) ==
  LET n == Len(graph.nodes)
      e == Len(graph.links)
  IN [nodeCount |-> n,
      edgeCount |-> e,
      density |-> IF isDirected THEN Fraction(e, n * (n - 1))
                  ELSE Fraction(2 * e, n * (n - 1)),
      avgDegree |-> Fraction(2 * e, n)]

\* The globalMetrics memo of a built graph; density and avgDegree are kept as the
\* fractions the code divides out.
GlobalMetrics(graph, isDirected) ==
  LET n == Len(graph.nodes)
      e == Len(graph.links)
  IN [nodeCount |-> n,
      edgeCount |-> e,
      density |-> IF n > 1
                    THEN (IF isDirected THEN Fraction(e, n * (n - 1))
                          ELSE Fraction(2 * e, n * (n - 1)))
                    ELSE Fraction(0, 1),
      avgDegree |-> IF n > 0 THEN Fraction(2 * e, n) ELSE Fraction(0, 1)]

globalMetrics == GlobalMetrics(graphData, config.isDirected)

\* C20: when the build completes with at least two nodes, the density is
\* edgeCount / (n * (n - 1)) in directed mode and 2 * edgeCount / (n * (n - 1)) in
\* undirected mode, and it lies between 0 and 1.
C20_DensityBounds ==
  (Completed /\ Len(graphData.nodes) >= 2) =>
    LET n == Len(graphData.nodes)
        e == Len(graphData.links)
        density == globalMetrics.density
    IN /\ density.den = n * (n - 1)
       /\ density.num = IF config.isDirected THEN e ELSE 2 * e
       /\ 0 <= density.num
       /\ density.num <= density.den

\* C20 witness: an undirected graph of at least three nodes is built and its density
\* is exactly 1.
C20_Witness ==
  /\ Completed
  /\ ~config.isDirected
  /\ Len(graphData.nodes) >= 3
  /\ globalMetrics.density.num = globalMetrics.density.den

(***************************************************************************)
(* The configuration lists                                                 *)
(***************************************************************************)

NoRepeats(seq) == \A i, j \in 1..Len(seq) : seq[i] = seq[j] => i = j

\* C30: after any sequence of dimension toggles and edge-type toggles from the
\* initial configuration, neither selectedNodeAttrs nor enabledEdgeTypes holds an
\* element twice.
C30_TogglesKeepListsDuplicateFree ==
  /\ NoRepeats(config.selectedNodeAttrs)
  /\ NoRepeats(config.enabledEdgeTypes)

\* C30 witness: a dimension and an edge type have been toggled off and on again:
\* each is back in its list, now as the last element.
C30_Witness ==
  /\ clicks >= 2
  /\ \/ /\ Len(config.selectedNodeAttrs) = Len(InitialConfig.selectedNodeAttrs)
        /\ config.selectedNodeAttrs # InitialConfig.selectedNodeAttrs
        /\ Range(config.selectedNodeAttrs) = Range(InitialConfig.selectedNodeAttrs)
     \/ /\ config.enabledEdgeTypes # EdgeTypes
        /\ Range(config.enabledEdgeTypes) = Range(EdgeTypes)

(***************************************************************************)
(* The endpoints of the edges                                              *)
(***************************************************************************)

\* C26: the build completes without a lookup of a missing node, and every edge of
\* the edge list has a source and a target that are ids of nodes of the node list
\* and are the two ids of a pair of mentions that was combined into a link key (in
\* the order of the mentions in directed mode), whatever the attribute values.
C26_EndpointsAreNodes ==
  LET es == AllEntities
      occ == PairOccurrences(es)
  IN /\ Completed
     /\ \A k \in 1..Len(graphData.links) :
          LET l == graphData.links[k] IN
          /\ l.source \in NodeIds
          /\ l.target \in NodeIds
          /\ \E rij \in occ :
               LET s == es[rij[1]][rij[2]].id
                   t == es[rij[1]][rij[3]].id
               IN \/ l.source = s /\ l.target = t
                  \/ ~config.isDirected /\ l.source = t /\ l.target = s

(***************************************************************************)
(* Degrees and incident edges                                              *)
(***************************************************************************)

\* The number of edge ends at a node: an edge counts once for its source and once
\* for its target.
IncidentEnds(id) == EdgesFrom(id) + EdgesTo(id)

\* The sum of the degrees of the nodes.
DegreeSum(nodes) ==
  SumOver(1..Len(nodes), [k \in 1..Len(nodes) |-> nodes[k].degree])

\* C28: in both modes, when the build completes every node has degree = inDegree +
\* outDegree = the number of edges incident to it, the degrees sum to twice the
\* edge count, and avgDegree is the mean of the degrees.
C28_DegreeCountsIncidentEdges ==
  Completed =>
    LET nodes == graphData.nodes
        gm == globalMetrics
    IN /\ \A k \in 1..Len(nodes) :
            /\ nodes[k].degree = nodes[k].inDegree + nodes[k].outDegree
            /\ nodes[k].degree = IncidentEnds(nodes[k].id)
       /\ DegreeSum(nodes) = 2 * gm.edgeCount
       /\ gm.avgDegree.num * Len(nodes) = DegreeSum(nodes) * gm.avgDegree.den

(***************************************************************************)
(* The type stored on an edge                                              *)
(***************************************************************************)

\* C29: when the build completes, the two endpoints of every edge are nodes and the
\* type stored on the edge is the classifier's type of the dimensions of its source
\* node and its target node.
C29_StoredTypeIsEndpointType ==
  Completed =>
    \A k \in 1..Len(graphData.links) :
      LET l == graphData.links[k] IN
      /\ l.source \in NodeIds
      /\ l.target \in NodeIds
      /\ l.type = determineEdgeType(NodeOf(l.source).group, NodeOf(l.target).group)

(***************************************************************************)
(* The resolver on custom dimension keys                                   *)
(***************************************************************************)

\* The text of a custom dimension key after its 'custom:' prefix.
KeyAfterPrefix(attr) == SubSeq(attr, Len(CustomPrefix) + 1, Len(attr))

\* A dimension key that is neither a base dimension nor a custom one.
UnrecognisedKey == <<"g", "e", "n", "r", "e">>

\* C25: for every record and every active custom dimension custom:<key>, the
\* resolver returns the record's custom field stored under the whole of <key>, or
\* the empty string when the record has no such field; for an unrecognised key it
\* returns the empty string.
C25_CustomKeyResolver ==
  \A r \in 1..Len(data) :
    /\ \A k \in 1..Len(config.selectedNodeAttrs) :
         LET attr == config.selectedNodeAttrs[k] IN
         StartsWith(attr, CustomPrefix) =>
           getAttrValue(data[r], attr) = CustomField(data[r], KeyAfterPrefix(attr))
    /\ getAttrValue(data[r], UnrecognisedKey) = <<>>

(***************************************************************************)
(* COLLABORATION edges                                                     *)
(***************************************************************************)

\* The pairs of mentions (record r, positions i < j) that are both of dimension
\* translatorName.
TranslatorPairs(es) ==
  {rij \in {<<r, i, j>> : r \in 1..Len(data), i \in 1..Len(config.selectedNodeAttrs),
                          j \in 1..Len(config.selectedNodeAttrs)} :
     /\ rij[2] < rij[3]
     /\ rij[3] <= Len(es[rij[1]])
     /\ es[rij[1]][rij[2]].type = translatorName
     /\ es[rij[1]][rij[3]].type = translatorName}

\* C27: no build produces an edge of type COLLABORATION, neither in the link map nor
\* in the edge list: the two mentions of a pair that are both of dimension
\* translatorName have the same id, whatever the records, the dimension list (with
\* or without repeats) and the enabled edge types.
C27_NoCollaborationEdge ==
  LET es == AllEntities
      lm == LinkMap
  IN /\ \A rij \in TranslatorPairs(es) : es[rij[1]][rij[2]].id = es[rij[1]][rij[3]].id
     /\ \A k \in 1..Len(lm) : lm[k].type # "COLLABORATION"
     /\ \A k \in 1..Len(graphData.links) : graphData.links[k].type # "COLLABORATION"

\* C27 witness: COLLABORATION is enabled, a record mentions its translator twice
\* (the dimension is listed twice), and the build completes with edges.
C27_Witness ==
  /\ Completed
  /\ Includes(config.enabledEdgeTypes, "COLLABORATION")
  /\ TranslatorPairs(AllEntities) # {}
  /\ Len(graphData.links) > 0

(***************************************************************************)
(* Rebuilds                                                                *)
(***************************************************************************)

FieldMissing(entry, attr) ==
  \/ attr = authorName /\ "author" \in entry.missing
  \/ attr = translatorName /\ "translator" \in entry.missing
  \/ attr = publisher /\ "publisher" \in entry.missing
  \/ StartsWith(attr, CustomPrefix) /\ "customMetadata" \in entry.missing

\* C23: when a field read by an active dimension is missing on a record, the
\* resolver does not raise and yields the empty string, the record has no mention
\* of that dimension, and the build goes on: the present values of the record's
\* other active dimensions have their nodes in the graph.
C23_MalformedNeverRaises ==
  \A r \in 1..Len(data) :
    \A k \in 1..Len(config.selectedNodeAttrs) :
      LET attr == config.selectedNodeAttrs[k] IN
      FieldMissing(data[r], attr) =>
        /\ ~Throws(data[r], attr)
        /\ getAttrValue(data[r], attr) = <<>>
        /\ \A j \in 1..Len(config.selectedNodeAttrs) :
             LET other == config.selectedNodeAttrs[j] IN
             (~FieldMissing(data[r], other) /\ IsPresent(getAttrValue(data[r], other)))
               => NodeId(other, getAttrValue(data[r], other)) \in NodeIds

(***************************************************************************)
(* Degenerate graphs                                                       *)
(***************************************************************************)

\* A fraction with a non-zero denominator and a value that is not negative.
Finite(x) == x.den > 0 /\ x.num >= 0

\* C21: when the build completes, a graph of 0 or 1 node has density 0 and avgDegree
\* 0, a graph of more nodes has avgDegree 2 * edgeCount / n, and in every graph no
\* metric is a quotient by zero: density, avgDegree and every closeness have a
\* non-zero denominator, and every betweenness and pageRank is a number.
C21_DegenerateStable ==
  Completed =>
    LET n == Len(graphData.nodes)
        e == Len(graphData.links)
        gm == globalMetrics
    IN /\ Finite(gm.density)
       /\ Finite(gm.avgDegree)
       /\ n <= 1 => (gm.density.num = 0 /\ gm.avgDegree.num = 0)
       /\ n >= 2 => gm.avgDegree.num * n = 2 * e * gm.avgDegree.den
       /\ \A k \in 1..n :
            /\ Finite(graphData.nodes[k].closeness)
            /\ graphData.nodes[k].betweenness \in Nat
            /\ graphData.nodes[k].pageRank \in Nat

\* C21 witness: records have been saved and the build completes with a single node:
\* the closeness of the node is 0 and its rank is positive.
C21_Witness ==
  /\ Completed
  /\ Len(data) > 0
  /\ Len(graphData.nodes) = 1
  /\ graphData.nodes[1].closeness.num = 0
  /\ graphData.nodes[1].pageRank > 0

(***************************************************************************)
(* Empty inputs                                                            *)
(***************************************************************************)

\* Whether every value that the active dimensions resolve on the records is absent:
\* its trimmed form is "", "Unknown" or "N/A".
AllValuesAbsent ==
  \A r \in 1..Len(data) : \A k \in 1..Len(config.selectedNodeAttrs) :
    Trim(getAttrValue(data[r], config.selectedNodeAttrs[k])) \in Sentinels

\* C22: with no record, with no active dimension, or when every value that the
\* active dimensions resolve is absent, the build completes with no node and no
\* edge.
C22_EmptyInputsEmptyGraph ==
  (data = <<>> \/ config.selectedNodeAttrs = <<>> \/ AllValuesAbsent) =>
    /\ Completed
    /\ graphData.nodes = <<>>
    /\ graphData.links = <<>>

=============================================================================
